---- MODULE Spec2Model ----
(***************************************************************************)
(* Metis DEX aggregation router: the routing graph engine (graph.rs), the  *)
(* router orchestrator (routing.rs) and the quote cache (quote.rs).        *)
(*                                                                         *)
(* Number representation.  rust_decimal amounts are integers counting      *)
(* thousandths (Milli).  Ratios of amounts (exchange rates, price impact,  *)
(* effective rate) are exact fractions [n, d] with d > 0.  f64 distances   *)
(* are integers counting millionths of a nat, with Infinity for            *)
(* f64::INFINITY.  Option<T> is a sequence of length 0 (None) or 1 (Some). *)
(***************************************************************************)
EXTENDS Integers, Sequences, FiniteSets, TLC

VARIABLES
    graph,      \* RoutingGraph: nodes (address -> symbol), edges (address -> Seq(Edge))
    scanOrder,  \* iteration order of the HashMap `edges` of this graph instance
    request,    \* the RouteRequest of the call
    entry,      \* which public function the caller invokes
    eng,        \* RoutingGraph::find_optimal_route: IterationState and position
    spl,        \* RoutingGraph::find_split_routes: loop state
    rtr,        \* MetisRouter::find_optimal_route: position and outcome
    cache,      \* QuoteService.cache: key -> CachedQuote, for the keys present
    shardOf,    \* DashMap: the shard each key hashes to
    guards,     \* DashMap: shard -> tasks holding a Ref (read guard) into it
    now,        \* Instant::now(), in seconds
    task,       \* per task: its get_quote call
    sweep,      \* cleanup_cache: position, `now` of the scan, expired_keys
    multi       \* get_multi_dex_quotes: position, venue list and outcome

routeVars == <<graph, scanOrder, request, entry, eng, spl, rtr>>
quoteVars == <<cache, shardOf, guards, now, task, sweep, multi>>
vars == <<graph, scanOrder, request, entry, eng, spl, rtr,
          cache, shardOf, guards, now, task, sweep, multi>>

----------------------------------------------------------------------------
(* Numbers *)

Milli(n) == n * 1000

Abs(x) == IF x < 0 THEN 0 - x ELSE x

Min(a, b) == IF a <= b THEN a ELSE b

RECURSIVE GCD(_, _)
GCD(a, b) == IF b = 0 THEN a ELSE GCD(b, a % b)

\* the fraction n/d (d > 0) in lowest terms
Rat(n, d) ==
    LET g == GCD(Abs(n), d)
    IN  IF g = 0 THEN [n |-> 0, d |-> 1] ELSE [n |-> n \div g, d |-> d \div g]

RatMul(a, b) ==
    LET x == Rat(a.n, b.d)
        y == Rat(b.n, a.d)
    IN  Rat(x.n * y.n, x.d * y.d)

RatLeq(a, b) == a.n * b.d <= b.n * a.d

RatLess(a, b) == a.n * b.d < b.n * a.d

RatEq(a, b) == a.n * b.d = b.n * a.d

\* Decimal amount times a rate; the inputs of the model keep the product on
\* the thousandths grid, where rust_decimal is exact
MulRate(amount, rate) == (amount * rate.n) \div rate.d

Infinity == 1000000000

\* -ln(exchange_rate) as set by the graph builder, in millionths
EdgeWeight(rate) ==
    CASE rate.n = 1   /\ rate.d = 1000   -> 6907755
      [] rate.n = 101 /\ rate.d = 100000 -> 6897805
      [] rate.n = 102 /\ rate.d = 100000 -> 6887953
      [] rate.n = 1   /\ rate.d = 500    -> 6214608
      [] rate.n = 1   /\ rate.d = 10     -> 2302585
      [] rate.n = 1   /\ rate.d = 2      -> 693147
      [] rate.n = 1   /\ rate.d = 1      -> 0
      [] rate.n = 2   /\ rate.d = 1      -> 0 - 693147

None == <<>>

Some(x) == <<x>>

IsSome(o) == Len(o) = 1

Unwrap(o) == o[1]

Ok(v) == [ok |-> TRUE, val |-> v, err |-> ""]

Err(e) == [ok |-> FALSE, val |-> None, err |-> e]

RECURSIVE SumSeq(_)
SumSeq(s) == IF s = <<>> THEN 0 ELSE Head(s) + SumSeq(Tail(s))

RECURSIVE Perms(_)
Perms(S) ==
    IF S = {} THEN {<<>>}
    ELSE UNION {{<<x>> \o p : p \in Perms(S \ {x})} : x \in S}

----------------------------------------------------------------------------
(* Graphs.  An edge names its tokens by address; graph.nodes maps an       *)
(* address to the token's symbol.                                          *)

Edge(from, to, dex, rate, liquidity, max_trade_size, min_trade_size) ==
    [from_token     |-> from,
     to_token       |-> to,
     dex_platform   |-> dex,
     exchange_rate  |-> rate,
     liquidity      |-> Milli(liquidity),
     max_trade_size |-> Milli(max_trade_size),
     min_trade_size |-> Milli(min_trade_size),
     weight         |-> EdgeWeight(rate)]

R(n, d) == [n |-> n, d |-> d]

\* RoutingGraph::initialize_sample_data
SampleGraph ==
    [nodes |-> [a \in {"usdc", "sol", "ray"} |->
                   CASE a = "usdc" -> "USDC" [] a = "sol" -> "SOL" [] a = "ray" -> "RAY"],
     edges |-> [a \in {"usdc", "ray"} |->
                   IF a = "usdc"
                   THEN << Edge("usdc", "sol", "Raydium", R(1, 1000), 1000000, 500000, 10),
                           Edge("usdc", "sol", "Orca", R(101, 100000), 500000, 200000, 10),
                           Edge("usdc", "sol", "Meteora", R(102, 100000), 2000000, 1000000, 10),
                           Edge("usdc", "ray", "Raydium", R(1, 2), 100000, 50000, 10) >>
                   ELSE << Edge("ray", "sol", "Orca", R(1, 500), 50000, 25000, 1) >>]]

\* the single direct edge of the worked example
DirectGraph ==
    [nodes |-> [a \in {"a", "b"} |-> IF a = "a" THEN "A" ELSE "B"],
     edges |-> [a \in {"a"} |->
                   << Edge("a", "b", "Raydium", R(1, 1000), 1000000, 500000, 10) >>]]

\* three parallel edges of different venues; the best rate has the least room
ParallelGraph ==
    [nodes |-> [a \in {"a", "b"} |-> IF a = "a" THEN "A" ELSE "B"],
     edges |-> [a \in {"a"} |->
                   << Edge("a", "b", "Orca", R(1, 2), 1000, 500, 1),
                      Edge("a", "b", "Raydium", R(1, 1), 100, 90, 1),
                      Edge("a", "b", "Meteora", R(1, 10), 10000, 5000, 1) >>]]

\* a two-hop chain, a shallow direct edge, and an asset nothing leads to
ChainGraph ==
    [nodes |-> [a \in {"a", "b", "c", "d"} |->
                   CASE a = "a" -> "A" [] a = "b" -> "B" [] a = "c" -> "C" [] a = "d" -> "D"],
     edges |-> [a \in {"a", "b", "d"} |->
                   CASE a = "a" -> << Edge("a", "b", "Orca", R(1, 1), 500, 100, 1),
                                      Edge("a", "c", "Raydium", R(1, 2), 2000, 1000, 20) >>
                     [] a = "b" -> << Edge("b", "c", "Meteora", R(1, 1), 5000, 1000, 1) >>
                     [] a = "d" -> << Edge("d", "a", "Orca", R(2, 1), 5000, 1000, 1) >>]]

\* two ways to an asset, the longer one carrying the smaller amount, and an
\* edge out of that asset with room for the smaller amount only
DiamondGraph ==
    [nodes |-> [a \in {"s", "m", "x", "y"} |->
                   CASE a = "s" -> "S" [] a = "m" -> "M" [] a = "x" -> "X" [] a = "y" -> "Y"],
     edges |-> [a \in {"s", "m", "x"} |->
                   CASE a = "s" -> << Edge("s", "x", "Raydium", R(1, 2), 2000, 1000, 1),
                                      Edge("s", "m", "Orca", R(1, 1), 5000, 1000, 1) >>
                     [] a = "m" -> << Edge("m", "x", "Meteora", R(1, 1), 5000, 1000, 1) >>
                     [] a = "x" -> << Edge("x", "y", "Orca", R(1, 1), 600, 100, 1) >>]]

\* two edges whose sizes are out of order: max_trade_size above liquidity,
\* and min_trade_size above max_trade_size
OddEdgeGraph ==
    [nodes |-> [a \in {"p", "q", "r"} |->
                   CASE a = "p" -> "P" [] a = "q" -> "Q" [] a = "r" -> "R"],
     edges |-> [a \in {"p"} |->
                   << Edge("p", "q", "Orca", R(1, 1), 100, 500, 1),
                      Edge("p", "r", "Raydium", R(1, 1), 10000, 10, 60) >>]]

\* a cycle a -> b -> a whose rates multiply to 2, and a way out of it
CycleGraph ==
    [nodes |-> [a \in {"a", "b", "c"} |->
                   CASE a = "a" -> "A" [] a = "b" -> "B" [] a = "c" -> "C"],
     edges |-> [a \in {"a", "b"} |->
                   CASE a = "a" -> << Edge("a", "b", "Orca", R(2, 1), 5000, 1000, 1) >>
                     [] a = "b" -> << Edge("b", "a", "Raydium", R(1, 1), 5000, 1000, 1),
                                      Edge("b", "c", "Meteora", R(1, 1), 5000, 1000, 1) >>]]

\* two ways to an asset, the shorter one carrying the smaller amount, and an
\* edge out of that asset that takes the larger amount only
FunnelGraph ==
    [nodes |-> [a \in {"s", "m", "x", "y"} |->
                   CASE a = "s" -> "S" [] a = "m" -> "M" [] a = "x" -> "X" [] a = "y" -> "Y"],
     edges |-> [a \in {"s", "m", "x"} |->
                   CASE a = "s" -> << Edge("s", "x", "Raydium", R(1, 2), 2000, 1000, 1),
                                      Edge("s", "m", "Orca", R(1, 1), 5000, 1000, 1) >>
                     [] a = "m" -> << Edge("m", "x", "Meteora", R(1, 1), 200, 180, 1) >>
                     [] a = "x" -> << Edge("x", "y", "Orca", R(1, 1), 5000, 1000, 30) >>]]

Graphs ==
    {SampleGraph, DirectGraph, ParallelGraph, ChainGraph, DiamondGraph,
     OddEdgeGraph, CycleGraph, FunnelGraph}

\* request amounts (whole units) tried on a graph
AmountsOf(g) ==
    IF g = SampleGraph THEN {0, 1000}
    ELSE IF g = DirectGraph THEN {0, 100, 1000}
    ELSE {0, 50, 100, 1000}

UnknownSymbol == "ZZZ"

SymbolsOf(g) == {g.nodes[a] : a \in DOMAIN g.nodes}

MaxIterations == 3

MaxSplits == 5

\* RouterConfig::default
max_price_impact == R(5, 100)

BaseGasPerDex == 1

GasPrice == 5

MinSplitAmount == Milli(10)

----------------------------------------------------------------------------
(* RoutingGraph (graph.rs) *)

\* get_token_address answering an unknown symbol with the symbol itself
get_token_address_FallsBack(symbol) ==
    LET found == {a \in DOMAIN graph.nodes : graph.nodes[a] = symbol}
    IN  IF found = {} THEN Ok(symbol)
        ELSE Ok(CHOOSE a \in found : TRUE)

\* RoutingGraph::get_token_address
get_token_address(symbol) ==
    LET found == {a \in DOMAIN graph.nodes : graph.nodes[a] = symbol}
    IN  IF found = {} THEN Err("token not found")
        ELSE Ok(CHOOSE a \in found : TRUE)

\* initialize_nodes leaving every asset as a finished search reached it
initialize_nodes_Reached ==
    [a \in DOMAIN graph.nodes |->
        [distance |-> 0, predecessor |-> None,
         best_amount |-> Milli(1), liquidity_used |-> Milli(1), via |-> None]]

\* RoutingGraph::initialize_nodes.  `via` is not a field of GraphNode: it
\* keeps the edge whose relaxation last wrote the node
initialize_nodes ==
    [a \in DOMAIN graph.nodes |->
        [distance |-> Infinity, predecessor |-> None,
         best_amount |-> 0, liquidity_used |-> 0, via |-> None]]

\* the edges in the order one round visits them
RECURSIVE EdgesInOrder(_)
EdgesInOrder(order) ==
    IF order = <<>> THEN <<>>
    ELSE (IF Head(order) \in DOMAIN graph.nodes
          THEN graph.edges[Head(order)] ELSE <<>>)
         \o EdgesInOrder(Tail(order))

ScanSeq == EdgesInOrder(scanOrder)

\* calculate_price_impact with 0.05 in the place of 0.5
calculate_price_impact_Twentieth(edge, trade_amount) ==
    RatMul(Rat(trade_amount, edge.liquidity), R(1, 20))

\* RoutingGraph::calculate_price_impact
calculate_price_impact(edge, trade_amount) ==
    RatMul(Rat(trade_amount, edge.liquidity), R(1, 2))

\* the acceptance test preferring the larger amount over the lower distance
Accepts_ByAmount(edge, to_node, new_distance, constrained_amount) ==
    /\ constrained_amount > to_node.best_amount
    /\ constrained_amount > 0
    /\ constrained_amount >= edge.min_trade_size
    /\ RatLeq(calculate_price_impact(edge, constrained_amount), max_price_impact)

\* the acceptance test of relax_edge for a candidate (distance, amount)
Accepts(edge, to_node, new_distance, constrained_amount) ==
    /\ new_distance < to_node.distance
    /\ constrained_amount > 0
    /\ constrained_amount >= edge.min_trade_size
    /\ RatLeq(calculate_price_impact(edge, constrained_amount), max_price_impact)

\* the candidate amount of relax_edge
ConstrainedAmount(edge, best_amount) ==
    LET potential_amount == MulRate(best_amount, edge.exchange_rate)
        available_liquidity ==
            edge.liquidity - Min(edge.max_trade_size, edge.liquidity)
    IN  Min(potential_amount, available_liquidity)

\* RoutingGraph::relax_edge
relax_edge(state, edge) ==
    LET from_addr == edge.from_token
        to_addr == edge.to_token
    IN  IF from_addr \notin DOMAIN state.nodes THEN state
        ELSE IF state.nodes[from_addr].distance = Infinity THEN state
        ELSE LET from_node == state.nodes[from_addr]
                 new_distance == from_node.distance + edge.weight
                 constrained_amount == ConstrainedAmount(edge, from_node.best_amount)
             IN  IF /\ to_addr \in DOMAIN state.nodes
                    /\ Accepts(edge, state.nodes[to_addr], new_distance, constrained_amount)
                 THEN [state EXCEPT
                         !.nodes[to_addr] =
                             [distance |-> new_distance,
                              predecessor |-> Some(from_addr),
                              best_amount |-> constrained_amount,
                              liquidity_used |-> constrained_amount,
                              via |-> Some(edge)],
                         !.improved = TRUE]
                 ELSE state

\* RoutingGraph::find_edge
find_edge(from_addr, to_addr) ==
    IF from_addr \in DOMAIN graph.edges
       /\ \E i \in 1..Len(graph.edges[from_addr]) :
              graph.edges[from_addr][i].to_token = to_addr
    THEN LET es == graph.edges[from_addr]
             i == CHOOSE k \in 1..Len(es) :
                      /\ es[k].to_token = to_addr
                      /\ \A j \in 1..(k - 1) : es[j].to_token # to_addr
         IN  Ok(es[i])
    ELSE Err("edge not found")

\* RoutingGraph::estimate_gas_cost, in units of 10^-12
estimate_gas_cost(segments) == (BaseGasPerDex * Len(segments)) * GasPrice

\* segments.reverse() left out
Reverse_Kept(s) == s

Reverse(s) == [i \in 1..Len(s) |-> s[Len(s) + 1 - i]]

----------------------------------------------------------------------------
(* RoutingGraph::find_optimal_route as a step function on the record       *)
(*   [pc, req, order, nodes, improved, iteration, pos, segments,           *)
(*    current_addr, current_amount, result]                                *)
(* order is the order in which `for (from_addr, edges) in &self.edges`     *)
(* visits the keys of the graph instance the call runs on.                 *)
(* pc: "idle" (not called), "start", "loop" (the while test), "relax"      *)
(* (inside a round, pos is the next edge of ScanSeq), "extract", "walk"    *)
(* (the predecessor loop), "finish", "done" (returned result),             *)
(* "walk_forever" (the predecessor loop has come back to an asset it       *)
(* already left and never ends).                                           *)

EngineIdle ==
    [pc |-> "idle", req |-> None, order |-> << >>, nodes |-> << >>, improved |-> FALSE,
     iteration |-> 0, pos |-> 0, segments |-> << >>, current_addr |-> "",
     current_amount |-> 0, result |-> Ok(None)]

\* the call on a graph instance whose edge map iterates in `order`
EngineCallIn(req, order) ==
    [EngineIdle EXCEPT !.pc = "start", !.req = Some(req), !.order = order]

EngineCall(req) == EngineCallIn(req, scanOrder)

EngineReturn(e, res) == [e EXCEPT !.pc = "done", !.result = res]

\* graph.rs 152-167
EngineStart(e) ==
    LET req == Unwrap(e.req)
        start == get_token_address(req.input_token)
    IN  IF ~start.ok THEN EngineReturn(e, Err(start.err))
        ELSE [e EXCEPT
                !.pc = "loop",
                !.nodes = [initialize_nodes EXCEPT
                              ![start.val].distance = 0,
                              ![start.val].best_amount = req.input_amount],
                !.improved = TRUE,
                !.iteration = 0]

\* EngineLoop without the test of the iteration budget
EngineLoop_NoBudget(e) ==
    IF e.improved
    THEN [e EXCEPT !.pc = "relax", !.improved = FALSE,
                   !.iteration = @ + 1, !.pos = 1]
    ELSE [e EXCEPT !.pc = "extract"]

\* graph.rs 170-172
EngineLoop(e) ==
    IF e.improved /\ e.iteration < Unwrap(e.req).max_iterations
    THEN [e EXCEPT !.pc = "relax", !.improved = FALSE,
                   !.iteration = @ + 1, !.pos = 1]
    ELSE [e EXCEPT !.pc = "extract"]

\* graph.rs 177-183, one edge
EngineRelax(e) ==
    [relax_edge(e, EdgesInOrder(e.order)[e.pos]) EXCEPT !.pos = @ + 1]

\* graph.rs 186-190
EngineEndRound(e) ==
    IF ~e.improved THEN [e EXCEPT !.pc = "extract"]
    ELSE [e EXCEPT !.pc = "loop"]

\* ExtractStart with an unreached target reported as a failure
ExtractStart_UnreachedIsError(e) ==
    LET out == get_token_address(Unwrap(e.req).output_token)
    IN  IF ~out.ok THEN EngineReturn(e, Err(out.err))
        ELSE IF out.val \notin DOMAIN e.nodes THEN EngineReturn(e, Ok(None))
        ELSE IF e.nodes[out.val].distance = Infinity
        THEN EngineReturn(e, Err("no path to output token"))
        ELSE [e EXCEPT !.pc = "walk", !.segments = << >>,
                       !.current_addr = out.val,
                       !.current_amount = e.nodes[out.val].best_amount]

\* graph.rs 291-302
ExtractStart(e) ==
    LET out == get_token_address(Unwrap(e.req).output_token)
    IN  IF ~out.ok THEN EngineReturn(e, Err(out.err))
        ELSE IF out.val \notin DOMAIN e.nodes THEN EngineReturn(e, Ok(None))
        ELSE IF e.nodes[out.val].distance = Infinity THEN EngineReturn(e, Ok(None))
        ELSE [e EXCEPT !.pc = "walk", !.segments = << >>,
                       !.current_addr = out.val,
                       !.current_amount = e.nodes[out.val].best_amount]

\* graph.rs 304-325, one turn of the while-let
ExtractWalk(e) ==
    LET pred == e.nodes[e.current_addr].predecessor
    IN  IF ~IsSome(pred) THEN [e EXCEPT !.pc = "finish"]
        ELSE IF Len(e.segments) >= Cardinality(DOMAIN e.nodes)
        THEN [e EXCEPT !.pc = "walk_forever"]
        ELSE LET predecessor_addr == Unwrap(pred)
                 found == find_edge(predecessor_addr, e.current_addr)
             IN  IF ~found.ok THEN EngineReturn(e, Err(found.err))
                 ELSE LET edge == found.val
                          input_amount == e.nodes[predecessor_addr].best_amount
                          output_amount == e.current_amount
                      IN  [e EXCEPT
                             !.segments = Append(@,
                                 [from_token |-> edge.from_token,
                                  to_token |-> edge.to_token,
                                  dex_platform |-> edge.dex_platform,
                                  input_amount |-> input_amount,
                                  output_amount |-> output_amount,
                                  exchange_rate |-> Rat(output_amount, input_amount),
                                  price_impact |-> calculate_price_impact(edge, input_amount)]),
                             !.current_addr = predecessor_addr,
                             !.current_amount = input_amount]

\* MakeRoute with segments.first() in the place of segments.last()
MakeRoute_FirstSegment(segments, req) ==
    LET total_input == req.input_amount
        total_output == segments[1].output_amount
    IN  [segments |-> segments,
         total_input_amount |-> total_input,
         total_output_amount |-> total_output,
         effective_rate |-> Rat(total_output, total_input),
         gas_estimate |-> estimate_gas_cost(segments),
         split_ratio |-> None]

\* the route assembled from the reversed segments, graph.rs 334-348
MakeRoute(segments, req) ==
    LET total_input == req.input_amount
        total_output == segments[Len(segments)].output_amount
    IN  [segments |-> segments,
         total_input_amount |-> total_input,
         total_output_amount |-> total_output,
         effective_rate |-> Rat(total_output, total_input),
         gas_estimate |-> estimate_gas_cost(segments),
         split_ratio |-> None]

\* graph.rs 328-348
ExtractFinish(e) ==
    LET segments == Reverse(e.segments)
    IN  IF segments = << >> THEN EngineReturn(e, Ok(None))
        ELSE EngineReturn(e, Ok(Some(MakeRoute(segments, Unwrap(e.req)))))

EngineStep(e) ==
    CASE e.pc = "start"   -> EngineStart(e)
      [] e.pc = "loop"    -> EngineLoop(e)
      [] e.pc = "relax"   -> IF e.pos <= Len(EdgesInOrder(e.order)) THEN EngineRelax(e)
                             ELSE EngineEndRound(e)
      [] e.pc = "extract" -> ExtractStart(e)
      [] e.pc = "walk"    -> ExtractWalk(e)
      [] e.pc = "finish"  -> ExtractFinish(e)

RECURSIVE EngineRun(_)
EngineRun(e) ==
    IF e.pc \in {"done", "walk_forever"} THEN e ELSE EngineRun(EngineStep(e))

\* RoutingGraph::find_optimal_route run to its end: the final engine record
find_optimal_route(req) == EngineRun(EngineCall(req))

\* the same call on an instance of the graph whose edge map iterates in `order`
find_optimal_route_in(req, order) == EngineRun(EngineCallIn(req, order))

----------------------------------------------------------------------------
(* RoutingGraph::find_split_routes as a step function on the record        *)
(*   [pc, req, split_idx, remaining_amount, split_routes, result]          *)
(* pc: "idle", "start", "loop" (top of the for), "finish", "done", and     *)
(* "hung" (a sub-search never returned).                                   *)

SplitIdle ==
    [pc |-> "idle", req |-> None, split_idx |-> 0, remaining_amount |-> 0,
     split_routes |-> << >>, result |-> Ok(None)]

SplitCall(req) == [SplitIdle EXCEPT !.pc = "start", !.req = Some(req)]

SplitReturn(s, res) == [s EXCEPT !.pc = "done", !.result = res]

\* request.max_splits.unwrap_or(3)
MaxSplitsOf(req) == IF IsSome(req.max_splits) THEN Unwrap(req.max_splits) ELSE 3

\* SplitRatio with the last branch repeating the second fraction
SplitRatio_RepeatsSecond(split_idx) ==
    IF split_idx = 0 THEN R(6, 10)
    ELSE IF split_idx = 1 THEN R(3, 10)
    ELSE R(3, 10)

\* graph.rs 416-422
SplitRatio(split_idx) ==
    IF split_idx = 0 THEN R(6, 10)
    ELSE IF split_idx = 1 THEN R(3, 10)
    ELSE R(1, 10)

\* graph.rs 396-407
SplitStart(s) ==
    LET req == Unwrap(s.req)
    IN  IF ~req.enable_split_routes THEN SplitReturn(s, Ok(None))
        ELSE [s EXCEPT !.pc = "loop", !.split_routes = << >>,
                       !.remaining_amount = req.input_amount,
                       !.split_idx = 0]

\* graph.rs 410-438, one turn of the for
SplitAttempt(s) ==
    LET req == Unwrap(s.req)
        split_amount == MulRate(req.input_amount, SplitRatio(s.split_idx))
    IN  IF s.split_idx >= MaxSplitsOf(req) THEN [s EXCEPT !.pc = "finish"]
        ELSE IF s.remaining_amount <= 0 THEN [s EXCEPT !.pc = "finish"]
        ELSE IF split_amount < MinSplitAmount THEN [s EXCEPT !.pc = "finish"]
        ELSE LET sub == find_optimal_route([req EXCEPT !.input_amount = split_amount])
             IN  IF sub.pc = "walk_forever" THEN [s EXCEPT !.pc = "hung"]
                 ELSE IF ~sub.result.ok THEN SplitReturn(s, Err(sub.result.err))
                 ELSE IF IsSome(sub.result.val)
                 THEN [s EXCEPT !.split_routes = Append(@, Unwrap(sub.result.val)),
                                !.remaining_amount = @ - split_amount,
                                !.split_idx = @ + 1]
                 ELSE [s EXCEPT !.split_idx = @ + 1]

\* MakeSplitRoute with the last route's output taken for the plan's output
MakeSplitRoute_LastOutput(split_routes) ==
    LET total_input ==
            SumSeq([i \in 1..Len(split_routes) |-> split_routes[i].total_input_amount])
        total_output == split_routes[Len(split_routes)].total_output_amount
    IN  [routes |-> split_routes,
         total_input_amount |-> total_input,
         total_output_amount |-> total_output,
         effective_rate |-> Rat(total_output, total_input),
         gas_estimate |->
            SumSeq([i \in 1..Len(split_routes) |-> split_routes[i].gas_estimate])]

\* graph.rs 444-458
MakeSplitRoute(split_routes) ==
    LET total_input ==
            SumSeq([i \in 1..Len(split_routes) |-> split_routes[i].total_input_amount])
        total_output ==
            SumSeq([i \in 1..Len(split_routes) |-> split_routes[i].total_output_amount])
    IN  [routes |-> split_routes,
         total_input_amount |-> total_input,
         total_output_amount |-> total_output,
         effective_rate |-> Rat(total_output, total_input),
         gas_estimate |->
            SumSeq([i \in 1..Len(split_routes) |-> split_routes[i].gas_estimate])]

\* SplitFinish that takes a single route for no split at all
SplitFinish_NeedsTwo(s) ==
    IF Len(s.split_routes) < 2 THEN SplitReturn(s, Ok(None))
    ELSE SplitReturn(s, Ok(Some(MakeSplitRoute(s.split_routes))))

\* graph.rs 440-458
SplitFinish(s) ==
    IF s.split_routes = << >> THEN SplitReturn(s, Ok(None))
    ELSE SplitReturn(s, Ok(Some(MakeSplitRoute(s.split_routes))))

SplitStep(s) ==
    CASE s.pc = "start"  -> SplitStart(s)
      [] s.pc = "loop"   -> SplitAttempt(s)
      [] s.pc = "finish" -> SplitFinish(s)

RECURSIVE SplitRun(_)
SplitRun(s) ==
    IF s.pc \in {"done", "hung"} THEN s ELSE SplitRun(SplitStep(s))

\* RoutingGraph::find_split_routes run to its end: the final split record
find_split_routes(req) == SplitRun(SplitCall(req))

----------------------------------------------------------------------------
(* MetisRouter (routing.rs) *)

\* validate_request without the test for distinct tokens
validate_request_NoDistinctTest(req) ==
    IF req.input_amount <= 0 THEN Err("input amount must be positive")
    ELSE IF req.slippage_tolerance <= 0 \/ req.slippage_tolerance >= Milli(1)
    THEN Err("slippage tolerance must be between 0 and 1")
    ELSE IF req.max_iterations = 0 THEN Err("max iterations must be greater than 0")
    ELSE Ok(None)

\* MetisRouter::validate_request
validate_request(req) ==
    IF req.input_amount <= 0 THEN Err("input amount must be positive")
    ELSE IF req.slippage_tolerance <= 0 \/ req.slippage_tolerance >= Milli(1)
    THEN Err("slippage tolerance must be between 0 and 1")
    ELSE IF req.max_iterations = 0 THEN Err("max iterations must be greater than 0")
    ELSE IF req.input_token = req.output_token
    THEN Err("input and output token must differ")
    ELSE Ok(None)

\* MetisRouter::compare_routes: effective_rate - gas_estimate of the single
\* route is greater than that of the split plan.  gas_estimate counts
\* 10^-12, and two different effective rates a/b, c/d differ by at least
\* 1/(b*d) > 10^-10 for the integers of the model, so the rates decide and
\* the gas estimates break a tie.
compare_routes(single_route, split_route) ==
    \/ RatLess(split_route.effective_rate, single_route.effective_rate)
    \/ /\ RatEq(split_route.effective_rate, single_route.effective_rate)
       /\ single_route.gas_estimate < split_route.gas_estimate

\* routing.rs 50-56
NewResponse(req) ==
    [request |-> req, route |-> None, split_route |-> None, iterations_used |-> 0]

\* routing.rs 75-84
DropWorse(response) ==
    IF IsSome(response.route) /\ IsSome(response.split_route)
    THEN IF ~compare_routes(Unwrap(response.route), Unwrap(response.split_route))
         THEN [response EXCEPT !.route = None]
         ELSE [response EXCEPT !.split_route = None]
    ELSE response

\* RouterTail that runs the split search whenever it is enabled and returns
\* what both searches found
RouterTail_KeepBoth(req, r1) ==
    IF req.enable_split_routes
    THEN LET split == find_split_routes(req)
         IN  IF split.pc = "hung"
             THEN [pc |-> "hung", searched |-> <<"single", "split">>,
                   result |-> Ok(None)]
             ELSE IF ~split.result.ok
             THEN [pc |-> "done", searched |-> <<"single", "split">>,
                   result |-> Err(split.result.err)]
             ELSE [pc |-> "done", searched |-> <<"single", "split">>,
                   result |-> Ok(Some([r1 EXCEPT !.split_route = split.result.val]))]
    ELSE [pc |-> "done", searched |-> <<"single">>, result |-> Ok(Some(r1))]

\* routing.rs 66-84 on the response r1 that holds the single search's route:
\* [pc, searched, result]
RouterTail(req, r1) ==
    IF req.enable_split_routes /\ ~IsSome(r1.route)
    THEN LET split == find_split_routes(req)
         IN  IF split.pc = "hung"
             THEN [pc |-> "hung", searched |-> <<"single", "split">>,
                   result |-> Ok(None)]
             ELSE IF ~split.result.ok
             THEN [pc |-> "done", searched |-> <<"single", "split">>,
                   result |-> Err(split.result.err)]
             ELSE [pc |-> "done", searched |-> <<"single", "split">>,
                   result |-> Ok(Some(DropWorse(
                       [r1 EXCEPT !.split_route = split.result.val])))]
    ELSE [pc |-> "done", searched |-> <<"single">>,
          result |-> Ok(Some(DropWorse(r1)))]

\* MetisRouter::find_optimal_route: [pc, searched, result]; pc is "done"
\* when the call returned result and "hung" when a search never returned;
\* searched lists the searches the call ran
RouterRun(req) ==
    LET valid == validate_request(req)
    IN  IF ~valid.ok
        THEN [pc |-> "done", searched |-> << >>, result |-> Err(valid.err)]
        ELSE
        LET single == find_optimal_route(req)
        IN  IF single.pc = "walk_forever"
            THEN [pc |-> "hung", searched |-> <<"single">>, result |-> Ok(None)]
            ELSE IF ~single.result.ok
            THEN [pc |-> "done", searched |-> <<"single">>,
                  result |-> Err(single.result.err)]
            ELSE RouterTail(req, [NewResponse(req) EXCEPT !.route = single.result.val])

RouterIdle == [pc |-> "idle", searched |-> << >>, result |-> Ok(None)]

----------------------------------------------------------------------------------------------------------------------------------------
(* QuoteService (quote.rs).  Quote amounts are exact fractions of whole    *)
(* units, since 1 - price_impact takes them off any fixed grid.            *)

Tasks == {"t1", "t2"}

Shards == {1, 2}

QuoteRequest(dex, in, out, amount) ==
    [dex_platform |-> dex, input_token |-> in, output_token |-> out,
     amount |-> amount]

QuoteRequests ==
    {QuoteRequest("Raydium", "USDC", "SOL", 1000),
     QuoteRequest("Orca", "USDC", "SOL", 1000)}

\* requests whose venue or asset names hold the separator of the cache key
SeparatorRequests ==
    {QuoteRequest("Orca", "USDC:SOL", "RAY", 1000),
     QuoteRequest("Orca:USDC", "SOL", "RAY", 1000)}

NamedRequests == QuoteRequests \cup SeparatorRequests

\* requests of small and large amounts: up to twice the venue's liquidity
\* (1000000 at Raydium, 100000 at a venue without a name of its own) and above
SizedRequests ==
    {QuoteRequest("Raydium", "USDC", "SOL", 1000),
     QuoteRequest("Raydium", "USDC", "SOL", 2000000),
     QuoteRequest("Raydium", "USDC", "SOL", 3000000),
     QuoteRequest("Jupiter", "USDC", "SOL", 1000),
     QuoteRequest("Jupiter", "USDC", "SOL", 200000),
     QuoteRequest("Jupiter", "USDC", "SOL", 250000)}

\* QuoteConfig::default
cache_ttl_seconds == 30

enable_cache == TRUE

MaxTime == 60

TickSteps == {15, 30}

\* generate_cache_key without the venue
generate_cache_key_NoVenue(req) ==
    req.input_token \o ":" \o req.output_token \o ":" \o ToString(req.amount)

\* QuoteService::generate_cache_key
generate_cache_key(req) ==
    req.dex_platform \o ":" \o req.input_token \o ":" \o req.output_token
        \o ":" \o ToString(req.amount)

QuoteKeys == {generate_cache_key(r) : r \in QuoteRequests}

NamedKeys == {generate_cache_key(r) : r \in NamedRequests}

SizedKeys == {generate_cache_key(r) : r \in SizedRequests}

\* QuoteService::calculate_price_impact
quote_price_impact(trade_amount, liquidity) ==
    RatMul(Rat(trade_amount, liquidity), R(1, 2))

\* the simulated venue answer, quote.rs 102-107
DexParams(dex) ==
    CASE dex = "Raydium" ->
            [exchange_rate |-> R(1, 1000), liquidity |-> 1000000, fee_rate |-> R(25, 10000)]
      [] dex = "Orca" ->
            [exchange_rate |-> R(101, 100000), liquidity |-> 500000, fee_rate |-> R(3, 1000)]
      [] dex = "Meteora" ->
            [exchange_rate |-> R(102, 100000), liquidity |-> 2000000, fee_rate |-> R(35, 10000)]
      [] OTHER ->
            [exchange_rate |-> R(1, 1000), liquidity |-> 100000, fee_rate |-> R(3, 1000)]

\* QuoteService::fetch_quote_from_dex
fetch_quote_from_dex(req) ==
    LET p == DexParams(req.dex_platform)
        base_output == RatMul(R(req.amount, 1), p.exchange_rate)
        price_impact == quote_price_impact(req.amount, p.liquidity)
        output_amount ==
            RatMul(base_output, Rat(price_impact.d - price_impact.n, price_impact.d))
        fee_amount == RatMul(R(req.amount, 1), p.fee_rate)
    IN  [input_amount |-> req.amount,
         output_amount |-> output_amount,
         exchange_rate |-> p.exchange_rate,
         price_impact |-> price_impact,
         liquidity_available |-> p.liquidity,
         fee_amount |-> fee_amount]

\* the venue's answer to each request of the model
QuoteTable == [r \in NamedRequests \cup SizedRequests |-> fetch_quote_from_dex(r)]

\* DashMap::insert
CacheInsert(c, key, cached) ==
    [k \in DOMAIN c \cup {key} |-> IF k = key THEN cached ELSE c[k]]

\* DashMap::remove
CacheRemove(c, key) == [k \in DOMAIN c \ {key} |-> c[k]]

EmptyCache == [k \in {} |-> 0]

\* a task's get_quote call: pc is "idle", "check" (before cache.get),
\* "remove" (at cache.remove, holding the Ref of cache.get), "fetch",
\* "insert", "done" (returned result).  seen and stored record what
\* cache.get found: "miss", "fresh" or "stale", and the quote it held.
TaskIdle ==
    [pc |-> "idle", req |-> None, key |-> "", seen |-> "none", stored |-> None,
     quote |-> None, result |-> None, didFetch |-> FALSE]

\* cleanup_cache: pc is "idle" or "remove" (after the scan); scanned keeps the
\* cache as the scan found it
SweepIdle ==
    [pc |-> "idle", now |-> 0, expired_keys |-> << >>, scanned |-> EmptyCache]

\* get_multi_dex_quotes: pc is "idle", "join" (awaiting join_all) or "done"
MultiIdle == [pc |-> "idle", dex_platforms |-> << >>, result |-> Ok(<< >>)]

QuoteInit ==
    /\ multi = MultiIdle
    /\ cache = EmptyCache
    /\ guards = [s \in Shards |-> {}]
    /\ now = 0
    /\ task = [t \in Tasks |-> TaskIdle]
    /\ sweep = SweepIdle

\* a task calls QuoteService::get_quote(req), quote.rs 60-61
GetQuote(t, req) ==
    /\ task[t].pc \in {"idle", "done"}
    /\ task' = [task EXCEPT ![t] =
                   [TaskIdle EXCEPT !.pc = "check", !.req = Some(req),
                                    !.key = generate_cache_key(req)]]
    /\ UNCHANGED <<cache, shardOf, guards, now, sweep, multi>>
    /\ UNCHANGED routeVars

\* the expiry test of the cache hit, quote.rs 66
IsFresh(cached, t) == cached.expires_at > t

\* quote.rs 64-75: cache.get and the expiry test.  The Ref returned by
\* cache.get is bound to `cached` for the whole if-let block: it is released
\* by the return of the hit, and is still held in the else branch
CheckCache(t) ==
    /\ task[t].pc = "check"
    /\ LET key == task[t].key
       IN  IF ~enable_cache
           THEN /\ task' = [task EXCEPT ![t].pc = "fetch"]
                /\ UNCHANGED guards
           ELSE IF key \notin DOMAIN cache
           THEN /\ task' = [task EXCEPT ![t].pc = "fetch", ![t].seen = "miss"]
                /\ UNCHANGED guards
           ELSE IF IsFresh(cache[key], now)
           THEN /\ task' = [task EXCEPT ![t].pc = "done", ![t].seen = "fresh",
                                        ![t].stored = Some(cache[key].quote),
                                        ![t].result = Some(cache[key].quote)]
                /\ UNCHANGED guards
           ELSE /\ task' = [task EXCEPT ![t].pc = "remove", ![t].seen = "stale",
                                        ![t].stored = Some(cache[key].quote)]
                /\ guards' = [guards EXCEPT ![shardOf[key]] = @ \cup {t}]
    /\ UNCHANGED <<cache, shardOf, now, sweep, multi>>
    /\ UNCHANGED routeVars

\* quote.rs 78: the lookup at the venue
FetchFromDex(t) ==
    /\ task[t].pc = "fetch"
    /\ task' = [task EXCEPT ![t].pc = IF enable_cache THEN "insert" ELSE "done",
                            ![t].quote = Some(QuoteTable[Unwrap(task[t].req)]),
                            ![t].result = IF enable_cache THEN None
                                          ELSE Some(QuoteTable[Unwrap(task[t].req)]),
                            ![t].didFetch = TRUE]
    /\ UNCHANGED <<cache, shardOf, guards, now, sweep, multi>>
    /\ UNCHANGED routeVars

\* quote.rs 72 (cache.remove) and 82-89 (cache.insert and return): both take
\* the shard's write lock, which waits until no Ref into the shard is held
WriteCache(t) ==
    /\ task[t].pc \in {"remove", "insert"}
    /\ guards[shardOf[task[t].key]] = {}
    /\ IF task[t].pc = "remove"
       THEN /\ cache' = CacheRemove(cache, task[t].key)
            /\ task' = [task EXCEPT ![t].pc = "fetch"]
       ELSE /\ cache' = CacheInsert(cache, task[t].key,
                            [quote |-> Unwrap(task[t].quote),
                             expires_at |-> now + cache_ttl_seconds])
            /\ task' = [task EXCEPT ![t].pc = "done", ![t].result = task[t].quote]
    /\ UNCHANGED <<shardOf, guards, now, sweep, multi>>
    /\ UNCHANGED routeVars

\* the expiry test of the sweep with the comparison made strict
IsExpired_Strict(cached, t) == cached.expires_at < t

\* the expiry test of the sweep, quote.rs 204
IsExpired(cached, t) == cached.expires_at <= t

\* QuoteService::cleanup_cache, quote.rs 200-209: the scan
CleanupScan ==
    /\ sweep.pc = "idle"
    /\ \E keys \in Perms({k \in DOMAIN cache : IsExpired(cache[k], now)}) :
          sweep' = [pc |-> "remove", now |-> now, expired_keys |-> keys,
                    scanned |-> cache]
    /\ UNCHANGED <<cache, shardOf, guards, now, task, multi>>
    /\ UNCHANGED routeVars

\* quote.rs 210-212: one cache.remove of the sweep
CleanupRemove ==
    /\ sweep.pc = "remove"
    /\ sweep.expired_keys # << >>
    /\ guards[shardOf[Head(sweep.expired_keys)]] = {}
    /\ cache' = CacheRemove(cache, Head(sweep.expired_keys))
    /\ sweep' = [sweep EXCEPT !.expired_keys = Tail(@)]
    /\ UNCHANGED <<shardOf, guards, now, task, multi>>
    /\ UNCHANGED routeVars

\* quote.rs 214-215: cleanup_cache returns
CleanupReturn ==
    /\ sweep.pc = "remove"
    /\ sweep.expired_keys = << >>
    /\ sweep' = SweepIdle
    /\ UNCHANGED <<cache, shardOf, guards, now, task, multi>>
    /\ UNCHANGED routeVars

\* time passes
Tick ==
    /\ \E d \in TickSteps :
          /\ now + d <= MaxTime
          /\ now' = now + d
    /\ UNCHANGED <<cache, shardOf, guards, task, sweep, multi>>
    /\ UNCHANGED routeVars

----------------
(* Routing: one call of a public function on one graph *)

RequestsOf(g, e) ==
    [input_token : SymbolsOf(g) \cup {UnknownSymbol},
     output_token : SymbolsOf(g) \cup {UnknownSymbol},
     input_amount : {Milli(a) : a \in AmountsOf(g)},
     slippage_tolerance : IF e = "router" THEN {0, 5, Milli(1)} ELSE {5},
     max_iterations : 0..MaxIterations,
     enable_split_routes : IF e = "engine" THEN {FALSE} ELSE BOOLEAN,
     max_splits : IF e = "engine" THEN {None}
                  ELSE {None} \cup {Some(k) : k \in 0..MaxSplits}]

RouteInit ==
    /\ graph \in Graphs
    /\ scanOrder \in Perms(DOMAIN graph.edges)
    /\ entry \in {"engine", "split", "router"}
    /\ request \in RequestsOf(graph, entry)
    /\ eng = EngineIdle
    /\ spl = SplitIdle
    /\ rtr = RouterIdle
    /\ shardOf = [k \in QuoteKeys |-> 1]
    /\ QuoteInit

\* the caller invokes RoutingGraph::find_optimal_route(request)
CallFindOptimalRoute ==
    /\ entry = "engine"
    /\ eng.pc = "idle"
    /\ eng' = EngineCall(request)
    /\ UNCHANGED <<graph, scanOrder, request, entry, spl, rtr>>
    /\ UNCHANGED quoteVars

InitializeSearch ==
    /\ eng.pc = "start"
    /\ eng' = EngineStart(eng)
    /\ UNCHANGED <<graph, scanOrder, request, entry, spl, rtr>>
    /\ UNCHANGED quoteVars

BeginRound ==
    /\ eng.pc = "loop"
    /\ eng' = EngineLoop(eng)
    /\ UNCHANGED <<graph, scanOrder, request, entry, spl, rtr>>
    /\ UNCHANGED quoteVars

RelaxEdge ==
    /\ eng.pc = "relax"
    /\ eng.pos <= Len(ScanSeq)
    /\ eng' = EngineRelax(eng)
    /\ UNCHANGED <<graph, scanOrder, request, entry, spl, rtr>>
    /\ UNCHANGED quoteVars

EndRound ==
    /\ eng.pc = "relax"
    /\ eng.pos > Len(ScanSeq)
    /\ eng' = EngineEndRound(eng)
    /\ UNCHANGED <<graph, scanOrder, request, entry, spl, rtr>>
    /\ UNCHANGED quoteVars

BeginExtract ==
    /\ eng.pc = "extract"
    /\ eng' = ExtractStart(eng)
    /\ UNCHANGED <<graph, scanOrder, request, entry, spl, rtr>>
    /\ UNCHANGED quoteVars

WalkPredecessor ==
    /\ eng.pc = "walk"
    /\ eng' = ExtractWalk(eng)
    /\ UNCHANGED <<graph, scanOrder, request, entry, spl, rtr>>
    /\ UNCHANGED quoteVars

FinishExtract ==
    /\ eng.pc = "finish"
    /\ eng' = ExtractFinish(eng)
    /\ UNCHANGED <<graph, scanOrder, request, entry, spl, rtr>>
    /\ UNCHANGED quoteVars

\* the caller invokes RoutingGraph::find_split_routes(request)
CallFindSplitRoutes ==
    /\ entry = "split"
    /\ spl.pc = "idle"
    /\ spl' = SplitCall(request)
    /\ UNCHANGED <<graph, scanOrder, request, entry, eng, rtr>>
    /\ UNCHANGED quoteVars

BeginSplit ==
    /\ spl.pc = "start"
    /\ spl' = SplitStart(spl)
    /\ UNCHANGED <<graph, scanOrder, request, entry, eng, rtr>>
    /\ UNCHANGED quoteVars

AttemptSplit ==
    /\ spl.pc = "loop"
    /\ spl' = SplitAttempt(spl)
    /\ UNCHANGED <<graph, scanOrder, request, entry, eng, rtr>>
    /\ UNCHANGED quoteVars

FinishSplit ==
    /\ spl.pc = "finish"
    /\ spl' = SplitFinish(spl)
    /\ UNCHANGED <<graph, scanOrder, request, entry, eng, rtr>>
    /\ UNCHANGED quoteVars

\* the caller invokes MetisRouter::find_optimal_route(request)
RouterFindOptimalRoute ==
    /\ entry = "router"
    /\ rtr.pc = "idle"
    /\ rtr' = RouterRun(request)
    /\ UNCHANGED <<graph, scanOrder, request, entry, eng, spl>>
    /\ UNCHANGED quoteVars

RouteNext ==
    \/ CallFindOptimalRoute
    \/ InitializeSearch
    \/ BeginRound
    \/ RelaxEdge
    \/ EndRound
    \/ BeginExtract
    \/ WalkPredecessor
    \/ FinishExtract
    \/ CallFindSplitRoutes
    \/ BeginSplit
    \/ AttemptSplit
    \/ FinishSplit
    \/ RouterFindOptimalRoute

Spec == RouteInit /\ [][RouteNext]_vars

----------------------------------------------------------------------------
(* The quote service: tasks calling get_quote, the sweep, and time *)

QuoteServiceInit ==
    /\ graph = SampleGraph
    /\ scanOrder = <<"usdc", "ray">>
    /\ entry = "quote"
    /\ request = [input_token |-> "USDC", output_token |-> "SOL",
                  input_amount |-> Milli(1000), slippage_tolerance |-> 5,
                  max_iterations |-> 5, enable_split_routes |-> TRUE,
                  max_splits |-> Some(3)]
    /\ eng = EngineIdle
    /\ spl = SplitIdle
    /\ rtr = RouterIdle
    /\ shardOf \in [QuoteKeys -> Shards]
    /\ QuoteInit

QuoteNext ==
    \/ \E t \in Tasks, req \in QuoteRequests : GetQuote(t, req)
    \/ \E t \in Tasks : CheckCache(t)
    \/ \E t \in Tasks : FetchFromDex(t)
    \/ \E t \in Tasks : WriteCache(t)
    \/ CleanupScan
    \/ CleanupRemove
    \/ CleanupReturn
    \/ Tick

QuoteSpec == QuoteServiceInit /\ [][QuoteNext]_vars

\* a task that can take its next step takes it, and a running sweep goes on
FairQuoteSpec ==
    /\ QuoteSpec
    /\ \A t \in Tasks :
          /\ WF_vars(CheckCache(t))
          /\ WF_vars(FetchFromDex(t))
          /\ WF_vars(WriteCache(t))
    /\ WF_vars(CleanupRemove)
    /\ WF_vars(CleanupReturn)

----------------------------------------------------------------------------
(* cleanup_cache running alone on a cache that earlier get_quote calls      *)
(* filled: an entry written at time T expires at T + cache_ttl_seconds      *)

RequestOfKey(k) == CHOOSE r \in QuoteRequests : generate_cache_key(r) = k

InsertTimes == {0, 15, 30, 45, 60}

FilledCaches ==
    UNION {[K -> InsertTimes] : K \in SUBSET QuoteKeys}

SweepInit ==
    /\ graph = SampleGraph
    /\ scanOrder = <<"usdc", "ray">>
    /\ entry = "sweep"
    /\ request = [input_token |-> "USDC", output_token |-> "SOL",
                  input_amount |-> Milli(1000), slippage_tolerance |-> 5,
                  max_iterations |-> 5, enable_split_routes |-> TRUE,
                  max_splits |-> Some(3)]
    /\ eng = EngineIdle
    /\ spl = SplitIdle
    /\ rtr = RouterIdle
    /\ shardOf \in [QuoteKeys -> Shards]
    /\ guards = [s \in Shards |-> {}]
    /\ task = [t \in Tasks |-> TaskIdle]
    /\ sweep = SweepIdle
    /\ multi = MultiIdle
    /\ now \in InsertTimes
    /\ \E written \in FilledCaches :
          /\ \A k \in DOMAIN written : written[k] <= now
          /\ cache = [k \in DOMAIN written |->
                         [quote |-> QuoteTable[RequestOfKey(k)],
                          expires_at |-> written[k] + cache_ttl_seconds]]

SweepNext ==
    \/ CleanupScan
    \/ CleanupRemove
    \/ CleanupReturn
    \/ Tick

SweepSpec == SweepInit /\ [][SweepNext]_vars

----------------------------------------------------------------------------
(* QuoteService::get_multi_dex_quotes: one get_quote future per venue of    *)
(* the list, run by join_all; future i is the get_quote call of TaskSeq[i]  *)

TaskSeq == <<"t1", "t2">>

Venues == {r.dex_platform : r \in QuoteRequests}

VenueLists == UNION {[1..n -> Venues] : n \in 0..Len(TaskSeq)}

\* quote.rs 162-167
MultiRequest(dex) == QuoteRequest(dex, "USDC", "SOL", 1000)

\* quote.rs 170-176: what the future of venue i resolves to
FutureOutcome(dex, returned) ==
    IF IsSome(returned) THEN Some(<<dex, Unwrap(returned)>>) ELSE None

\* filter_map that collects back to front
RECURSIVE filter_map_BackToFront(_)
filter_map_BackToFront(results) ==
    IF results = << >> THEN << >>
    ELSE filter_map_BackToFront(Tail(results))
         \o (IF IsSome(Head(results)) THEN <<Unwrap(Head(results))>> ELSE << >>)

\* quote.rs 185-188: results.into_iter().filter_map(|result| result).collect()
RECURSIVE filter_map(_)
filter_map(results) ==
    IF results = << >> THEN << >>
    ELSE (IF IsSome(Head(results)) THEN <<Unwrap(Head(results))>> ELSE << >>)
         \o filter_map(Tail(results))

\* quote.rs 152-181: the futures are built and join_all starts them
GetMultiDexQuotes(dex_platforms) ==
    /\ multi.pc \in {"idle", "done"}
    /\ multi' = [pc |-> "join", dex_platforms |-> dex_platforms, result |-> Ok(<< >>)]
    /\ task' = [t \in Tasks |->
                   IF \E i \in 1..Len(dex_platforms) : TaskSeq[i] = t
                   THEN LET i == CHOOSE j \in 1..Len(dex_platforms) : TaskSeq[j] = t
                            req == MultiRequest(dex_platforms[i])
                        IN  [TaskIdle EXCEPT !.pc = "check", !.req = Some(req),
                                             !.key = generate_cache_key(req)]
                   ELSE TaskIdle]
    /\ UNCHANGED <<cache, shardOf, guards, now, sweep>>
    /\ UNCHANGED routeVars

\* quote.rs 181-195: join_all has every future's outcome, in the order of
\* the futures; the call returns the ones that are Some
JoinAll ==
    /\ multi.pc = "join"
    /\ \A i \in 1..Len(multi.dex_platforms) : task[TaskSeq[i]].pc = "done"
    /\ LET results == [i \in 1..Len(multi.dex_platforms) |->
                          FutureOutcome(multi.dex_platforms[i], task[TaskSeq[i]].result)]
       IN  multi' = [multi EXCEPT !.pc = "done", !.result = Ok(filter_map(results))]
    /\ UNCHANGED <<cache, shardOf, guards, now, task, sweep>>
    /\ UNCHANGED routeVars

MultiInit ==
    /\ graph = SampleGraph
    /\ scanOrder = <<"usdc", "ray">>
    /\ entry = "multi"
    /\ request = [input_token |-> "USDC", output_token |-> "SOL",
                  input_amount |-> Milli(1000), slippage_tolerance |-> 5,
                  max_iterations |-> 5, enable_split_routes |-> TRUE,
                  max_splits |-> Some(3)]
    /\ eng = EngineIdle
    /\ spl = SplitIdle
    /\ rtr = RouterIdle
    /\ shardOf \in [QuoteKeys -> Shards]
    /\ guards = [s \in Shards |-> {}]
    /\ task = [t \in Tasks |-> TaskIdle]
    /\ sweep = SweepIdle
    /\ multi = MultiIdle
    /\ now \in InsertTimes
    /\ \E written \in FilledCaches :
          /\ \A k \in DOMAIN written : written[k] <= now
          /\ cache = [k \in DOMAIN written |->
                         [quote |-> QuoteTable[RequestOfKey(k)],
                          expires_at |-> written[k] + cache_ttl_seconds]]

MultiNext ==
    \/ \E dex_platforms \in VenueLists : GetMultiDexQuotes(dex_platforms)
    \/ \E t \in Tasks : CheckCache(t)
    \/ \E t \in Tasks : FetchFromDex(t)
    \/ \E t \in Tasks : WriteCache(t)
    \/ JoinAll
    \/ Tick

MultiSpec == MultiInit /\ [][MultiNext]_vars

----------------
(* get_quote calls with free venue and asset names *)

NamedInit ==
    /\ graph = SampleGraph
    /\ scanOrder = <<"usdc", "ray">>
    /\ entry = "named"
    /\ request = [input_token |-> "USDC", output_token |-> "SOL",
                  input_amount |-> Milli(1000), slippage_tolerance |-> 5,
                  max_iterations |-> 5, enable_split_routes |-> TRUE,
                  max_splits |-> Some(3)]
    /\ eng = EngineIdle
    /\ spl = SplitIdle
    /\ rtr = RouterIdle
    /\ shardOf \in [NamedKeys -> Shards]
    /\ QuoteInit

NamedNext ==
    \/ \E t \in Tasks, req \in NamedRequests : GetQuote(t, req)
    \/ \E t \in Tasks : CheckCache(t)
    \/ \E t \in Tasks : FetchFromDex(t)
    \/ \E t \in Tasks : WriteCache(t)

NamedSpec == NamedInit /\ [][NamedNext]_vars

----------------
(* get_quote calls for amounts of every size *)

SizedInit ==
    /\ graph = SampleGraph
    /\ scanOrder = <<"usdc", "ray">>
    /\ entry = "sized"
    /\ request = [input_token |-> "USDC", output_token |-> "SOL",
                  input_amount |-> Milli(1000), slippage_tolerance |-> 5,
                  max_iterations |-> 5, enable_split_routes |-> TRUE,
                  max_splits |-> Some(3)]
    /\ eng = EngineIdle
    /\ spl = SplitIdle
    /\ rtr = RouterIdle
    /\ shardOf = [k \in SizedKeys |-> 1]
    /\ QuoteInit

SizedNext ==
    \/ \E t \in Tasks, req \in SizedRequests : GetQuote(t, req)
    \/ \E t \in Tasks : CheckCache(t)
    \/ \E t \in Tasks : FetchFromDex(t)
    \/ \E t \in Tasks : WriteCache(t)

SizedSpec == SizedInit /\ [][SizedNext]_vars

----------------------------------------------------------------------------
(* Properties of the routing engine *)

SourceAddr == get_token_address(request.input_token)

TargetAddr == get_token_address(request.output_token)

\* the engine call on `request` has ended its relaxation loop with both
\* assets in the graph and the target still at infinite distance
TargetLeftUnreached ==
    /\ eng.pc \in {"extract", "walk", "finish", "done", "walk_forever"}
    /\ SourceAddr.ok
    /\ TargetAddr.ok
    /\ eng.nodes[TargetAddr.val].distance = Infinity

\* C1: when the source and the target are assets of the graph and the
\* target's distance is still infinite after the relaxation loop,
\* RoutingGraph::find_optimal_route returns Ok(None): it neither fails nor
\* returns a route, and it does return.
C1_UnreachedIsNoRoute ==
    TargetLeftUnreached =>
        /\ eng.pc \in {"extract", "done"}
        /\ eng.pc = "done" => eng.result = Ok(None)

\* C1 witness: a search that ran at least one round on a positive amount,
\* reached some other asset, left the target unreached and returned Ok(None)
C1_Witness ==
    /\ TargetLeftUnreached
    /\ eng.pc = "done"
    /\ eng.result = Ok(None)
    /\ eng.iteration >= 1
    /\ request.input_amount > 0
    /\ \E a \in DOMAIN eng.nodes :
          a # SourceAddr.val /\ eng.nodes[a].distance < Infinity

\* the request of the worked example: 1,000 units of A for B
IsWorkedExample ==
    /\ graph = DirectGraph
    /\ request.input_token = "A"
    /\ request.output_token = "B"
    /\ request.input_amount = Milli(1000)
    /\ request.max_iterations >= 1

\* C2: on the single edge A->B (rate 0.001, liquidity 1,000,000, max trade
\* 500,000, min trade 10) a request for 1,000 A returns a route whose output
\* amount is 0.9995, i.e. 9995/10000 of one unit.
C2_WorkedExampleOutput ==
    (IsWorkedExample /\ eng.pc = "done") =>
        /\ eng.result.ok
        /\ IsSome(eng.result.val)
        /\ Unwrap(eng.result.val).total_output_amount * 10000 = 9995 * Milli(1)

\* what one edge can deliver for an amount at its source: the capped
\* amount if it meets the minimum trade size and the impact limit, else 0
Deliverable(edge, amount) ==
    LET c == ConstrainedAmount(edge, amount)
    IN  IF /\ c > 0
           /\ c >= edge.min_trade_size
           /\ RatLeq(calculate_price_impact(edge, c), max_price_impact)
        THEN c ELSE 0

RECURSIVE MaxOf(_)
MaxOf(S) ==
    IF S = {} THEN 0
    ELSE LET x == CHOOSE y \in S : TRUE
             m == MaxOf(S \ {x})
         IN  IF x >= m THEN x ELSE m

\* every edge of the graph is a parallel edge from the request's source to
\* its target
OnlyParallelEdges ==
    /\ SourceAddr.ok
    /\ TargetAddr.ok
    /\ SourceAddr.val # TargetAddr.val
    /\ DOMAIN graph.edges = {SourceAddr.val}
    /\ \A i \in 1..Len(graph.edges[SourceAddr.val]) :
          graph.edges[SourceAddr.val][i].to_token = TargetAddr.val

BestDeliverable ==
    MaxOf({Deliverable(graph.edges[SourceAddr.val][i], request.input_amount) :
              i \in 1..Len(graph.edges[SourceAddr.val])})

\* C3: with parallel edges A->B only, the route returned for a request
\* A->B carries the largest amount any of the edges can deliver under its
\* capacity constraints, and a route is returned whenever some edge can
\* deliver.
C3_ParallelEdgesMaximizeOutput ==
    (OnlyParallelEdges /\ eng.pc = "done" /\ request.max_iterations >= 1
        /\ BestDeliverable > 0) =>
        /\ eng.result.ok
        /\ IsSome(eng.result.val)
        /\ Unwrap(eng.result.val).total_output_amount = BestDeliverable

SplitInputs(plan) ==
    SumSeq([i \in 1..Len(plan.routes) |-> plan.routes[i].total_input_amount])

\* C4: the input amounts of the routes of a split plan returned by
\* find_split_routes sum to at most the requested input amount.
C4_SplitInputsWithinRequest ==
    (spl.pc = "done" /\ spl.result.ok /\ IsSome(spl.result.val)) =>
        SplitInputs(Unwrap(spl.result.val)) <= request.input_amount

\* C4 witness: a plan returned with max_splits above 3 after a sub-search
\* found no route, holding more than three routes
C4_Witness ==
    /\ spl.pc = "done"
    /\ spl.result.ok
    /\ IsSome(spl.result.val)
    /\ MaxSplitsOf(request) > 3
    /\ Len(Unwrap(spl.result.val).routes) > 3
    /\ spl.split_idx > Len(Unwrap(spl.result.val).routes)

----------------------------------------------------------------------------
(* Properties of the router *)

Returned == rtr.pc = "done" /\ rtr.result.ok

Response == Unwrap(rtr.result.val)

\* the single search and the split search of `request`, each run alone
SingleOf == find_optimal_route(request)

SplitOf == find_split_routes(request)

\* C7: the response reports in iterations_used the number of relaxation
\* rounds the single-route search of the request executed.
C7_IterationsUsedReported ==
    Returned => Response.iterations_used = SingleOf.iteration

\* x has a strictly higher effective_rate - gas_estimate than y (see
\* compare_routes for the arithmetic)
GasAdjustedHigher(x, y) ==
    \/ RatLess(y.effective_rate, x.effective_rate)
    \/ /\ RatEq(y.effective_rate, x.effective_rate)
       /\ x.gas_estimate < y.gas_estimate

\* a valid request with split routing enabled for which the single search
\* finds a route and the split search finds a plan
BothExist ==
    /\ validate_request(request).ok
    /\ request.enable_split_routes
    /\ SingleOf.pc = "done" /\ SingleOf.result.ok /\ IsSome(SingleOf.result.val)
    /\ SplitOf.pc = "done" /\ SplitOf.result.ok /\ IsSome(SplitOf.result.val)

\* C8: when a single route and a split plan both exist for a valid request
\* with split routing enabled, the response carries the one with the higher
\* gas-adjusted effective rate (either one on a tie).
C8_BetterOfBothReturned ==
    (rtr.pc = "done" /\ BothExist) =>
        /\ rtr.result.ok
        /\ \/ /\ Response.route = SingleOf.result.val
              /\ Response.split_route = None
              /\ ~GasAdjustedHigher(Unwrap(SplitOf.result.val),
                                    Unwrap(SingleOf.result.val))
           \/ /\ Response.split_route = SplitOf.result.val
              /\ Response.route = None
              /\ ~GasAdjustedHigher(Unwrap(SingleOf.result.val),
                                    Unwrap(SplitOf.result.val))

\* the four conditions a request must not meet
Invalid(req) ==
    \/ req.input_amount <= 0
    \/ ~(0 < req.slippage_tolerance /\ req.slippage_tolerance < Milli(1))
    \/ req.max_iterations = 0
    \/ req.input_token = req.output_token

ValidationErrors ==
    {"input amount must be positive",
     "slippage tolerance must be between 0 and 1",
     "max iterations must be greater than 0",
     "input and output token must differ"}

\* C9: MetisRouter::find_optimal_route returns a validation error without
\* running any search for a request with input amount <= 0, slippage
\* tolerance outside (0,1), max_iterations = 0 or equal source and target;
\* any other request reaches the single-route search.
C9_ValidationGuardsSearch ==
    rtr.pc # "idle" =>
        /\ Invalid(request) =>
              /\ rtr.pc = "done"
              /\ ~rtr.result.ok
              /\ rtr.result.err \in ValidationErrors
              /\ rtr.searched = << >>
        /\ ~Invalid(request) =>
              /\ rtr.searched # << >>
              /\ rtr.searched[1] = "single"
              /\ rtr.result.err \notin ValidationErrors

\* C9 witness: a request whose only fault is source = target, both assets
\* of the graph, rejected before any search
C9_Witness ==
    /\ rtr.pc = "done"
    /\ request.input_token = request.output_token
    /\ request.input_token \in SymbolsOf(graph)
    /\ request.input_amount > 0
    /\ request.slippage_tolerance = 5
    /\ request.max_iterations > 0
    /\ request.enable_split_routes
    /\ ~rtr.result.ok
    /\ rtr.searched = << >>

\* C10: a returned RouteResponse never holds both a single route and a
\* split plan.
C10_NeverBoth ==
    Returned => ~(IsSome(Response.route) /\ IsSome(Response.split_route))

\* C10 witness: a response returned for a request with split routing
\* enabled that holds a split plan (the split search ran and succeeded)
C10_Witness ==
    /\ Returned
    /\ request.enable_split_routes
    /\ rtr.searched = <<"single", "split">>
    /\ IsSome(Response.split_route)
    /\ ~IsSome(Response.route)

----------------------------------------------------------------------------
(* Properties of the quote cache *)

\* C5: a get_quote call that finds an expired entry for its key completes:
\* it performs a fresh lookup and returns the fresh quote.
C5_ExpiredHitCompletes ==
    \A t \in Tasks :
        (task[t].pc = "remove" /\ task[t].seen = "stale")
            ~> (/\ task[t].pc = "done"
                /\ task[t].didFetch
                /\ task[t].result = Some(QuoteTable[Unwrap(task[t].req)]))

\* C6: a get_quote call that finds an unexpired entry for its key returns
\* exactly the stored quote without a lookup at the venue, and a call that
\* finds the entry past its expiry goes on to a fresh lookup.
C6_Memoization ==
    /\ [](\A t \in Tasks :
            (task[t].pc = "done" /\ task[t].seen = "fresh") =>
                /\ task[t].result = task[t].stored
                /\ ~task[t].didFetch)
    /\ \A t \in Tasks : (task[t].seen = "stale") ~> task[t].didFetch

----------------------------------------------------------------------------
(* Reconstructed routes *)

\* the engine returned a route
EngineReturnedRoute ==
    /\ eng.pc = "done"
    /\ eng.result.ok
    /\ IsSome(eng.result.val)

EngineRoute == Unwrap(eng.result.val)

\* find_split_routes returned a plan
SplitReturnedPlan ==
    /\ spl.pc = "done"
    /\ spl.result.ok
    /\ IsSome(spl.result.val)

SplitPlan == Unwrap(spl.result.val)

Conserving(route) ==
    \A i \in 1..(Len(route.segments) - 1) :
        route.segments[i].output_amount = route.segments[i + 1].input_amount

\* C11: in every route the engine returns (to its caller or into a split
\* plan) each segment's output amount equals the next segment's input amount.
C11_SegmentsConserveAmounts ==
    /\ EngineReturnedRoute => Conserving(EngineRoute)
    /\ SplitReturnedPlan =>
          \A k \in 1..Len(SplitPlan.routes) : Conserving(SplitPlan.routes[k])

\* C11 witness: a returned route of several hops whose first hop changes the
\* amount
C11_Witness ==
    /\ EngineReturnedRoute
    /\ Len(EngineRoute.segments) >= 2
    /\ EngineRoute.segments[1].input_amount # EngineRoute.segments[1].output_amount

----------------------------------------------------------------------------
(* Lookup failures *)

UnknownToken(req) ==
    \/ req.input_token \notin SymbolsOf(graph)
    \/ req.output_token \notin SymbolsOf(graph)

LookupError(res) == ~res.ok /\ res.err = "token not found"

\* C12: when the source or the target symbol of the request is not an asset
\* of the graph, RoutingGraph::find_optimal_route ends with the lookup error,
\* and MetisRouter::find_optimal_route, for a request that passes validation,
\* returns that error having run the single search only.
C12_UnknownTokenIsLookupError ==
    /\ (entry = "engine" /\ eng.pc \notin {"idle", "start"} /\ UnknownToken(request)) =>
          /\ eng.pc # "walk_forever"
          /\ eng.pc = "done" => LookupError(eng.result)
    /\ (entry = "router" /\ rtr.pc # "idle" /\ validate_request(request).ok
            /\ UnknownToken(request)) =>
          /\ rtr.pc = "done"
          /\ LookupError(rtr.result)
          /\ rtr.searched = <<"single">>

\* C12 witness: the router returned for a valid request with split routing
\* enabled whose source is an asset of the graph and whose target is not
C12_Witness ==
    /\ entry = "router"
    /\ rtr.pc = "done"
    /\ validate_request(request).ok
    /\ request.enable_split_routes
    /\ request.input_token \in SymbolsOf(graph)
    /\ request.output_token \notin SymbolsOf(graph)
    /\ LookupError(rtr.result)

----------------------------------------------------------------------------
(* Properties of the quote cache *)

\* task t's get_quote call missed the cache and has returned
MissReturned(t) == task[t].pc = "done" /\ task[t].seen = "miss"

\* C13: get_quote calls on one key that all miss return the same quote, and
\* the cache.insert that ends such a call leaves the cache with the entries
\* it had plus one entry for the key, holding the quote computed from the
\* request, equal to what every such call on the key returned.
C13_ConcurrentMissesAgree ==
    /\ [](\A t, u \in Tasks :
            (MissReturned(t) /\ MissReturned(u) /\ task[t].key = task[u].key) =>
                task[t].result = task[u].result)
    /\ [][\A t \in Tasks :
            (task[t].pc = "insert" /\ task'[t].pc = "done") =>
                /\ DOMAIN cache' = DOMAIN cache \cup {task[t].key}
                /\ cache'[task[t].key].quote = fetch_quote_from_dex(Unwrap(task[t].req))
                /\ task'[t].result = Some(cache'[task[t].key].quote)
                /\ \A u \in Tasks :
                      (MissReturned(u) /\ task[u].key = task[t].key) =>
                          task[u].result = Some(cache'[task[t].key].quote)]_vars

\* C13 witness: both tasks missed on the same key before either had written,
\* both asked the venue, both wrote, and the entry of the last write is there
C13_Witness ==
    /\ now = 0
    /\ \A t \in Tasks : MissReturned(t) /\ task[t].didFetch
    /\ task["t1"].key = task["t2"].key
    /\ task["t1"].key \in DOMAIN cache

\* the entries of c that have not expired at time t
Unexpired(c, t) ==
    [k \in {j \in DOMAIN c : c[j].expires_at > t} |-> c[k]]

\* C14: when cleanup_cache has made its last removal, with no other cache
\* operation since its scan, the cache holds exactly the entries that were
\* unexpired at the time of the scan, each unchanged.
C14_SweepKeepsUnexpired ==
    (sweep.pc = "remove" /\ sweep.expired_keys = << >>) =>
        cache = Unexpired(sweep.scanned, sweep.now)

\* C14 witness: a finished sweep that found an expired and an unexpired entry
C14_Witness ==
    /\ sweep.pc = "remove"
    /\ sweep.expired_keys = << >>
    /\ \E k \in DOMAIN sweep.scanned : sweep.scanned[k].expires_at <= sweep.now
    /\ \E k \in DOMAIN sweep.scanned : sweep.scanned[k].expires_at > sweep.now
    /\ \E k \in DOMAIN sweep.scanned : sweep.scanned[k].expires_at = sweep.now

\* the futures of the running get_multi_dex_quotes call whose lookup returned
\* a quote
Succeeded ==
    {i \in 1..Len(multi.dex_platforms) : IsSome(task[TaskSeq[i]].result)}

\* the k-th smallest member of the set S of numbers
Nth(S, k) == CHOOSE i \in S : Cardinality({j \in S : j <= i}) = k

\* C15: get_multi_dex_quotes returns Ok with one (venue, quote) pair for
\* each venue of the list whose lookup succeeded and none for the others, in
\* the order of the list, each pair holding what that venue's lookup returned.
C15_MultiReturnsSucceededInOrder ==
    multi.pc = "done" =>
        /\ multi.result.ok
        /\ Len(multi.result.val) = Cardinality(Succeeded)
        /\ \A k \in 1..Len(multi.result.val) :
              LET i == Nth(Succeeded, k)
              IN  multi.result.val[k] =
                      <<multi.dex_platforms[i], Unwrap(task[TaskSeq[i]].result)>>

\* C15 witness: a call over two different venues returned, one quote taken
\* from the cache and one fetched
C15_Witness ==
    /\ multi.pc = "done"
    /\ Len(multi.dex_platforms) = 2
    /\ multi.dex_platforms[1] # multi.dex_platforms[2]
    /\ Len(multi.result.val) = 2
    /\ \E t \in Tasks : task[t].seen = "fresh"
    /\ \E t \in Tasks : task[t].didFetch

----------------------------------------------------------------------------
(* Properties of split plans *)

\* what the sub-search of attempt number i (1 is the first) of the request's
\* split search returns, run on its own
SubSearch(i) ==
    find_optimal_route(
        [request EXCEPT !.input_amount =
            MulRate(request.input_amount, SplitRatio(i - 1))]).result.val

\* the attempts of the finished split search that found a route; the loop
\* left split_idx at the number of attempts made
SucceededAttempts == {i \in 1..spl.split_idx : IsSome(SubSearch(i))}

\* C16: find_split_routes returns a plan exactly when some attempted
\* sub-search found a route, and the plan's routes are the routes of the
\* attempts that succeeded, in attempt order; otherwise it returns Ok(None).
C16_PlanHoldsSucceededAttempts ==
    (spl.pc = "done" /\ spl.result.ok) =>
        /\ IsSome(spl.result.val) <=> SucceededAttempts # {}
        /\ IsSome(spl.result.val) =>
              /\ Len(SplitPlan.routes) = Cardinality(SucceededAttempts)
              /\ \A k \in 1..Len(SplitPlan.routes) :
                    SplitPlan.routes[k] = Unwrap(SubSearch(Nth(SucceededAttempts, k)))

\* C16 witness: a returned plan of one route after an attempt that found none
C16_Witness ==
    /\ SplitReturnedPlan
    /\ Len(SplitPlan.routes) = 1
    /\ spl.split_idx >= 2

\* the sum of f[1], ..., f[n], added up from the last to the first
RECURSIVE SumTo(_, _)
SumTo(f, n) == IF n = 0 THEN 0 ELSE f[n] + SumTo(f, n - 1)

\* the ratio equals out / in
IsRatio(ratio, out, in) == in > 0 /\ ratio.d > 0 /\ ratio.n * in = out * ratio.d

\* C17: in every returned split plan total_input_amount is the sum of the
\* routes' total_input_amount, total_output_amount the sum of their
\* total_output_amount, and effective_rate is total_output_amount divided by
\* total_input_amount.
C17_PlanTotalsAreSums ==
    SplitReturnedPlan =>
        LET n == Len(SplitPlan.routes)
        IN  /\ SplitPlan.total_input_amount =
                  SumTo([i \in 1..n |-> SplitPlan.routes[i].total_input_amount], n)
            /\ SplitPlan.total_output_amount =
                  SumTo([i \in 1..n |-> SplitPlan.routes[i].total_output_amount], n)
            /\ IsRatio(SplitPlan.effective_rate, SplitPlan.total_output_amount,
                       SplitPlan.total_input_amount)

\* C17 witness: a returned plan of several routes that differ in effective rate
C17_Witness ==
    /\ SplitReturnedPlan
    /\ Len(SplitPlan.routes) >= 2
    /\ ~RatEq(SplitPlan.routes[1].effective_rate, SplitPlan.routes[2].effective_rate)

\* C18: in every route extract_route returns, total_input_amount is the
\* requested input amount, total_output_amount is the last segment's output
\* amount, and effective_rate is total_output_amount / total_input_amount.
C18_EffectiveRateIsOutputOverInput ==
    EngineReturnedRoute =>
        /\ EngineRoute.total_input_amount = request.input_amount
        /\ EngineRoute.total_output_amount =
              EngineRoute.segments[Len(EngineRoute.segments)].output_amount
        /\ IsRatio(EngineRoute.effective_rate, EngineRoute.total_output_amount,
                   EngineRoute.total_input_amount)

\* C18 witness: a returned route of several hops whose first and last segment
\* differ in output amount
C18_Witness ==
    /\ EngineReturnedRoute
    /\ Len(EngineRoute.segments) >= 2
    /\ EngineRoute.segments[1].output_amount # EngineRoute.total_output_amount

----------------------------------------------------------------------------
(* Properties of the relaxation *)

\* the search ran a round in which no relaxation was accepted
Converged(e) == e.pc \in {"done", "walk_forever"} /\ e.iteration >= 1 /\ ~e.improved

Reached(e) == {a \in DOMAIN e.nodes : e.nodes[a].distance # Infinity}

\* C19: when the search of the request reaches a round without improvement
\* within the iteration budget, every order of scanning the edges that does
\* so leaves the same assets reached and the same amount at the target.
C19_ScanOrderIndependent ==
    (Converged(eng) /\ TargetAddr.ok) =>
        \A order \in Perms(DOMAIN graph.edges) :
            LET other == find_optimal_route_in(request, order)
            IN  Converged(other) =>
                    /\ Reached(other) = Reached(eng)
                    /\ other.nodes[TargetAddr.val].best_amount =
                           eng.nodes[TargetAddr.val].best_amount

\* the edge the running round relaxes next, and the one it relaxed last
EdgeAt(e, pos) == EdgesInOrder(e.order)[pos]

\* C20: one relaxation changes no node but the edge's destination, and
\* either leaves the destination's distance, amount and predecessor as they
\* were or strictly lowers its distance and sets its amount to a positive
\* value that is at most the edge's liquidity.
C20_RelaxationLowersDistance ==
    [][(eng.pc = "relax" /\ eng.pos <= Len(EdgesInOrder(eng.order))
            /\ eng'.pos = eng.pos + 1) =>
          LET edge == EdgeAt(eng, eng.pos)
              before == eng.nodes[edge.to_token]
              after == eng'.nodes[edge.to_token]
          IN  /\ \A a \in DOMAIN eng.nodes \ {edge.to_token} :
                    eng'.nodes[a] = eng.nodes[a]
              /\ \/ /\ after.distance = before.distance
                    /\ after.best_amount = before.best_amount
                    /\ after.predecessor = before.predecessor
                 \/ /\ after.distance < before.distance
                    /\ after.best_amount > 0
                    /\ after.best_amount <= edge.liquidity]_vars

\* C20 witness: the relaxation just made was accepted with the edge's room
\* cutting the amount, right after a parallel edge to the same destination
\* was relaxed
C20_Witness ==
    /\ eng.pc = "relax"
    /\ eng.pos > 1
    /\ LET edge == EdgeAt(eng, eng.pos - 1)
           from_node == eng.nodes[edge.from_token]
           to_node == eng.nodes[edge.to_token]
       IN  /\ to_node.predecessor = Some(edge.from_token)
           /\ to_node.distance = from_node.distance + edge.weight
           /\ to_node.best_amount < MulRate(from_node.best_amount, edge.exchange_rate)
           /\ eng.pos > 2
           /\ EdgeAt(eng, eng.pos - 2).to_token = edge.to_token

----------------------------------------------------------------------------
(* Properties of edge constraints *)

\* the edge's sizes break min_trade_size <= max_trade_size <= liquidity
OutOfOrder(edge) ==
    \/ edge.min_trade_size > edge.max_trade_size
    \/ edge.max_trade_size > edge.liquidity

\* the edges whose relaxation wrote a node of the running or finished search
AcceptedEdges ==
    {Unwrap(eng.nodes[a].via) : a \in {b \in DOMAIN eng.nodes : IsSome(eng.nodes[b].via)}}

\* C21: no relaxation over an edge with min_trade_size above max_trade_size
\* or max_trade_size above liquidity is ever accepted, so no node of a search
\* and no segment of a route comes from such an edge.
C21_OutOfOrderEdgeNeverAccepted ==
    \A edge \in AcceptedEdges : ~OutOfOrder(edge)

----------------------------------------------------------------------------
(* Properties of the relaxation loop *)

\* an upper bound of the steps the relaxation loop has left: the edges left
\* in the running round and the end of the round, and the rounds left whole
LoopRank(e) ==
    LET n == Len(EdgesInOrder(e.order))
        left == Unwrap(e.req).max_iterations - e.iteration
    IN  IF e.pc = "loop" THEN left * (n + 2)
        ELSE left * (n + 2) + (n + 1 - e.pos) + 1

\* C22: the relaxation loop always terminates: the number of steps it has
\* left is never negative and every step inside it lowers that number or
\* leaves the loop.  A round begins only while
\* fewer than max_iterations rounds have begun, a round relaxes the edges of
\* the scan one after the other, each once, and ends after the last one; the
\* loop is left right after the first round that accepted no relaxation, and
\* otherwise when max_iterations rounds have run; with max_iterations >= 1
\* the loop is not left before one round has run.
C22_RelaxationLoopTerminates ==
    [][LET n == Len(EdgesInOrder(eng.order))
           budget == Unwrap(eng.req).max_iterations
       IN  /\ (eng.pc \in {"loop", "relax"} /\ eng' # eng) =>
                 /\ LoopRank(eng) >= 0
                 /\ \/ eng'.pc = "extract"
                    \/ /\ eng'.pc \in {"loop", "relax"}
                       /\ LoopRank(eng') >= 0
                       /\ LoopRank(eng') < LoopRank(eng)
           /\ (eng.pc = "loop" /\ eng'.pc = "relax") =>
                 /\ eng.iteration < budget
                 /\ eng'.iteration = eng.iteration + 1
                 /\ eng'.pos = 1
           /\ (eng.pc = "relax" /\ eng'.pc = "relax") =>
                 /\ eng.pos <= n
                 /\ eng'.pos = eng.pos + 1
                 /\ eng'.iteration = eng.iteration
           /\ (eng.pc = "relax" /\ eng'.pc # "relax") =>
                 /\ eng.pos = n + 1
                 /\ eng'.pc = (IF eng.improved THEN "loop" ELSE "extract")
           /\ (eng.pc = "loop" /\ eng'.pc = "extract") =>
                 /\ eng.iteration = budget
                 /\ (budget >= 1 => eng.iteration >= 1)
           /\ (eng.pc = "loop" /\ eng.iteration = budget /\ eng' # eng) =>
                 eng'.pc = "extract"]_vars

\* C22 witness: the budget ended the loop after several rounds, the last of
\* which still accepted a relaxation
C22_Witness ==
    /\ eng.pc = "extract"
    /\ eng.improved
    /\ eng.iteration >= 2
    /\ eng.iteration = Unwrap(eng.req).max_iterations

----------------------------------------------------------------------------
(* Properties of the acceptance test *)

\* the candidate amount the relaxation of the edge at position pos works with
Candidate(e, pos) ==
    ConstrainedAmount(EdgeAt(e, pos), e.nodes[EdgeAt(e, pos).from_token].best_amount)

\* amount / liquidity * 0.5 is above max_price_impact: the amount is above
\* the largest whole amount that stays within it
ImpactTooHigh(edge, amount) ==
    LET most == Rat(max_price_impact.n, max_price_impact.d)
    IN  amount > (2 * edge.liquidity * most.n) \div most.d

\* C23: a relaxation whose candidate amount is below the edge's
\* min_trade_size, or whose price impact (amount / liquidity * 0.5) is above
\* max_price_impact, is not accepted: it changes no node and does not mark
\* the round as improved.
C23_SmallOrCostlyCandidateRejected ==
    [][(eng.pc = "relax" /\ eng.pos <= Len(EdgesInOrder(eng.order))
            /\ eng'.pos = eng.pos + 1) =>
          LET edge == EdgeAt(eng, eng.pos)
              candidate == Candidate(eng, eng.pos)
          IN  (candidate < edge.min_trade_size \/ ImpactTooHigh(edge, candidate)) =>
                  /\ eng'.nodes = eng.nodes
                  /\ eng'.improved = eng.improved]_vars

\* the relaxation at position pos of the running round would lower the
\* distance of its destination with a positive amount
WouldImprove(e, pos) ==
    LET edge == EdgeAt(e, pos)
    IN  /\ edge.from_token # edge.to_token
        /\ e.nodes[edge.from_token].distance # Infinity
        /\ e.nodes[edge.from_token].distance + edge.weight
               < e.nodes[edge.to_token].distance
        /\ Candidate(e, pos) > 0

\* C23 witness: the relaxation just made would have lowered the distance of
\* its destination with an amount of at least the edge's min_trade_size, and
\* was turned down for its price impact
C23_Witness ==
    /\ eng.pc = "relax"
    /\ eng.pos > 1
    /\ WouldImprove(eng, eng.pos - 1)
    /\ Candidate(eng, eng.pos - 1) >= EdgeAt(eng, eng.pos - 1).min_trade_size
    /\ ImpactTooHigh(EdgeAt(eng, eng.pos - 1), Candidate(eng, eng.pos - 1))
    /\ eng.nodes[EdgeAt(eng, eng.pos - 1).to_token].via
           # Some(EdgeAt(eng, eng.pos - 1))

----------------------------------------------------------------------------
(* What a search leaves behind *)

\* what the engine returns for a request of its own that asks for the
\* route of `amount` between the assets of `request`
IsolatedRoute(amount) ==
    find_optimal_route_in(
        [request EXCEPT !.input_amount = amount,
                        !.enable_split_routes = FALSE,
                        !.max_splits = None],
        scanOrder).result.val

----------------------------------------------------------------------------
(* The life of a cache entry *)

\* the state of the entry of key k in cache c at time t
EntryState(c, k, t) ==
    IF k \notin DOMAIN c THEN "absent"
    ELSE IF IsFresh(c[k], t) THEN "valid"
    ELSE "expired"

\* C25: under every interleaving of get_quote calls and cleanup_cache, a
\* step that changes the state of a cache entry takes it from absent to
\* valid, from valid to expired, or from expired to absent.
C25_EntryLifeCycle ==
    [][\A k \in QuoteKeys :
          LET before == EntryState(cache, k, now)
              after == EntryState(cache', k, now')
          IN  \/ after = before
              \/ before = "absent" /\ after = "valid"
              \/ before = "valid" /\ after = "expired"
              \/ before = "expired" /\ after = "absent"]_vars

----------------------------------------------------------------------------
(* The split schedule *)

\* the sub-amount find_split_routes attempts at split index i (0 is the first)
SubAmount(i) == MulRate(request.input_amount, SplitRatio(i))

\* C26: the sub-amount attempted at each split index after the first is
\* strictly smaller than the one attempted at the index before; spl.split_idx
\* is the number of indices attempted so far.
C26_ScheduleStrictlyDecreasing ==
    spl.pc \in {"loop", "finish", "done"} =>
        \A i \in 1..(spl.split_idx - 1) : SubAmount(i) < SubAmount(i - 1)

----------------------------------------------------------------------------
(* Path reconstruction *)

\* the assets the predecessor walk has left so far, the target first
Walked(e) == [i \in 1..Len(e.segments) |-> e.segments[i].to_token]

\* C27: the predecessor walk of extract_route terminates: it never comes
\* back to an asset it has left, and when it ends it stands at the source.
C27_PredecessorWalkEnds ==
    /\ eng.pc # "walk_forever"
    /\ eng.pc \in {"walk", "finish"} =>
          /\ \A i, j \in 1..Len(eng.segments) :
                Walked(eng)[i] = Walked(eng)[j] => i = j
          /\ \A i \in 1..Len(eng.segments) : Walked(eng)[i] # eng.current_addr
    /\ eng.pc = "finish" => eng.current_addr = SourceAddr.val

----------------------------------------------------------------------------
(* Segments of a returned route *)

\* the edge whose accepted relaxation last wrote the destination of a segment
WrittenBy(seg) == Unwrap(eng.nodes[seg.to_token].via)

\* C28: each segment of a returned route names the venue of the edge whose
\* accepted relaxation last set its destination's predecessor and amount,
\* and its price impact is the one of its input amount on that edge's
\* liquidity.
C28_SegmentNamesAcceptedEdge ==
    EngineReturnedRoute =>
        \A i \in 1..Len(EngineRoute.segments) :
            LET seg == EngineRoute.segments[i]
            IN  /\ seg.dex_platform = WrittenBy(seg).dex_platform
                /\ RatEq(seg.price_impact,
                         calculate_price_impact(WrittenBy(seg), seg.input_amount))

\* the edges of the graph from one asset to another
EdgesBetween(from_addr, to_addr) ==
    IF from_addr \in DOMAIN graph.edges
    THEN {graph.edges[from_addr][i] : i \in
             {k \in 1..Len(graph.edges[from_addr]) :
                 graph.edges[from_addr][k].to_token = to_addr}}
    ELSE {}

\* C29: in every returned route each segment's output amount is at most its
\* input amount times the exchange rate of an edge between its two assets.
C29_SegmentOutputWithinRate ==
    EngineReturnedRoute =>
        \A i \in 1..Len(EngineRoute.segments) :
            LET seg == EngineRoute.segments[i]
            IN  \E edge \in EdgesBetween(seg.from_token, seg.to_token) :
                   seg.output_amount <= MulRate(seg.input_amount, edge.exchange_rate)

\* C30: in every returned route each segment's price_impact is at most
\* max_price_impact.
C30_SegmentImpactWithinLimit ==
    EngineReturnedRoute =>
        \A i \in 1..Len(EngineRoute.segments) :
            RatLeq(EngineRoute.segments[i].price_impact, max_price_impact)

\* C31: in every returned route each segment's input amount is at most the
\* max_trade_size and at most the liquidity of an edge between its two assets.
C31_SegmentInputWithinEdgeSize ==
    EngineReturnedRoute =>
        \A i \in 1..Len(EngineRoute.segments) :
            LET seg == EngineRoute.segments[i]
            IN  \E edge \in EdgesBetween(seg.from_token, seg.to_token) :
                   /\ seg.input_amount <= edge.max_trade_size
                   /\ seg.input_amount <= edge.liquidity

----------------------------------------------------------------------------
(* The sweep among get_quote calls *)

\* C32: with get_quote calls running beside it, a removal of cleanup_cache
\* never takes an entry that is unexpired when it is removed: an entry
\* written anew between the scan and the removal stays in the cache.
C32_SweepRemovesOnlyExpired ==
    [][(sweep.pc = "remove" /\ sweep.expired_keys # << >>
            /\ sweep'.expired_keys = Tail(sweep.expired_keys)) =>
          LET key == Head(sweep.expired_keys)
          IN  (key \in DOMAIN cache /\ cache[key].expires_at > now) =>
                  (key \in DOMAIN cache' /\ cache'[key] = cache[key])]_vars

----------------------------------------------------------------------------
(* The cache key *)

\* C33: two get_quote calls whose requests differ in venue, input asset,
\* output asset or amount work with different cache keys, and a call that
\* returns a cached quote returns the quote of its own request.
C33_CacheKeyInjective ==
    /\ \A t1, t2 \in Tasks :
          (task[t1].pc # "idle" /\ task[t2].pc # "idle"
              /\ task[t1].key = task[t2].key) => task[t1].req = task[t2].req
    /\ \A t \in Tasks :
          (task[t].pc = "done" /\ task[t].seen = "fresh") =>
              task[t].result = Some(fetch_quote_from_dex(Unwrap(task[t].req)))

----------------------------------------------------------------------------
(* The simulated quote *)

\* C34: the quote fetch_quote_from_dex computes for a request with a positive
\* amount has an output amount of at least 0 and a price impact of at most 1,
\* however large the amount is against the venue's liquidity.
C34_QuoteWithinRange ==
    \A t \in Tasks :
        (task[t].didFetch /\ Unwrap(task[t].req).amount > 0) =>
            /\ Unwrap(task[t].quote).output_amount.n >= 0
            /\ RatLeq(Unwrap(task[t].quote).price_impact, R(1, 1))

====
